---- MODULE Spec2Model ----
(***************************************************************************)
(* Growth Engine 2.0: the tiered agent orchestrator                        *)
(* (src/orchestrator.py) and the WebSocket event pump that streams agent   *)
(* events to the client (src/agent_api.py).                                *)
(*                                                                         *)
(* One asyncio event loop runs everything, so an action is the code        *)
(* between two awaits.  Agents are opaque coroutines: what one returns or  *)
(* raises is an input (outcome), and while it runs it may call the         *)
(* context callbacks at any moment.  Time is counted in ticks of 20 ms,    *)
(* the shortest delay the pump uses; a step that needs no time is taken    *)
(* before the clock advances.                                              *)
(*                                                                         *)
(* Lists are objects: self._insights and the insights field of a returned  *)
(* result refer to a list by its index in lists, so that two references to *)
(* one list see each other's appends.                                      *)
(*                                                                         *)
(* Specifications: Spec (one direct run_analysis call), SpecPump (one      *)
(* session with one start command), SpecSession (a session with start      *)
(* commands with and without url, a raising run, a raising mapping and     *)
(* persistence), SpecMapping (the handler from the mapping on, for every   *)
(* combination of agent outcomes), SpecInstance (one orchestrator used by  *)
(* two callers, with reset()), SpecShared (two WebSocket sessions on the   *)
(* process-wide orchestrator), SpecRestart (a second start command after   *)
(* a start whose run raised), SpecEntry (POST /analyze and the WebSocket   *)
(* start command with a list of competitors), SpecTasks (RedisTaskQueue    *)
(* with two workers), SpecLinks (MagicLinkStorage with one token).         *)
(***************************************************************************)
EXTENDS Integers, Sequences, FiniteSets, TLC

\* Bound: events emitted by agents during one run.
MaxEvents == 2

\* Bound: calls of reset().
MaxResets == 2

\* Bound: start commands without a url in one session.
MaxBadStarts == 1

AgentIds == {"scout", "analyst", "guardian", "prospector", "strategist", "planner"}

\* What agent.run(context) can produce: a result value (a non-empty dict or
\* an empty, falsy one) or an exception.
Results == {"data", "empty"}
Exceptions == {"exc"}
Outcomes == Results \cup Exceptions

\* A task that has not finished has no outcome yet.
Pending == "pending"

EventKinds == {"insight", "progress", "status"}

NoResult == [none |-> TRUE]

NoMsg == [type |-> "none"]

\* The delays of the pump, in ticks of 20 ms.
SleepTicks == 1
TimeoutTicks == 5
GraceTicks == 15

VARIABLES
    \* ---- AgentOrchestrator instance
    agents,            \* keys of self.agents
    execution_tiers,   \* self.execution_tiers
    insights,          \* self._insights: the index in lists of the list it is bound to
    on_insight,        \* self._on_insight  ("none" or the listener)
    on_progress,       \* self._on_progress
    on_status,         \* self._on_status
    \* ---- one run_analysis call
    pc,                \* "idle" | "gather" | "done" | "raised"
    tier_idx,          \* 1-based index of the tier being awaited
    tier_tasks,        \* agent ids whose coroutine was put in tier_tasks
    task_state,        \* per agent: "none" | "scheduled" | "running" | "returned" | "raised"
    task_result,       \* what the agent's task resolved to
    agent_results,     \* context.agent_results
    results, errors, agents_completed, agents_failed,
    ret,               \* the OrchestrationResult returned
    \* ---- environment and observation
    allowed,           \* input: what each agent's run() may produce
    emitters,          \* input: the agents whose run() emits events
    launched,          \* how many times each agent's coroutine was created
    emitted,           \* events emitted so far (numbers the events)
    \* ---- one WebSocket session and its start command
    ws_pc,             \* "none" | "recv" | "await_run" | "grace" | "mapping"
                       \* | "send_complete" | "persist" | "send_error" | "closed"
    ws_open,           \* the client is still connected
    message_queue,     \* asyncio.Queue()
    send_task_running, \* the running flag
    pending_messages,  \* every message the callbacks queued, in order
    sender_pc,         \* message_sender: "none" | "created" | "get" | "send"
                       \* | "sleep" | "done" | "cancelled"
    sender_msg,        \* the message message_sender is writing
    sender_timer,      \* ticks left of the dequeue timeout or the delay
    grace_timer,       \* ticks left of the handler's grace delay
    ws_writing,        \* frames whose transport write has begun
    ws_sent,           \* frames the transport has fully written, in order
    \* ---- objects the instance refers to
    lists,             \* the list objects created so far; self._insights
                       \* and a returned result refer to one by its index
    agent_status,      \* per registered agent: agent._status
    agent_progress,    \* per registered agent: agent._progress
    \* ---- observation of the consumer's writes
    write_attempts,    \* calls of manager.send_json by message_sender
    failed_writes,     \* those of them whose send_text failed
    \* ---- other calls on the same instance
    reset_count,       \* calls of reset() so far
    other_pc,          \* a second run_analysis call: "idle" | "running" | "done"
    other_began,       \* where the first call was when the second began
    other_ret,         \* the result the second call returned
    other_emitted,     \* the numbers of the events the second call's agents emitted
    \* ---- the consumer task an earlier start command of the session left
    old_sender_pc,     \* "none" | "get_old" | "get" | "send" | "sleep" | "done"
    old_sender_msg,    \* the message it is writing
    old_sender_timer,  \* ticks left of its dequeue timeout or delay
    \* ---- the entry points
    competitor_urls,   \* input: the competitor_urls of the client's request
    context_competitor_urls, \* context.competitor_urls of the run
    rest_pc,           \* POST /analyze: "none" | "rejected" | "running" | "responded"
    \* ---- RedisTaskQueue and its workers
    task_store,        \* Redis value under task:<id>, NoTask when the key is missing
    result_store,      \* Redis value under task_result:<id>, <<>> when missing
    calls_started,     \* add_result calls begun so far; call n adds result n
    worker_pc,         \* per worker: position inside add_result
    worker_result,     \* per worker: the result of the call in progress, 0 if none
    worker_results,    \* per worker: the local list `results`
    worker_updates,    \* per worker: the local dict `updates`
    worker_task,       \* per worker: the local `task_data` of update_task
    \* ---- MagicLinkStorage and one token
    redis_client,      \* input: a Redis client is configured
    postgres_conn,     \* input: a PostgreSQL connection is configured
    now,               \* the clock, in ticks since store_token
    link_stored,       \* store_token has been called for the token
    redis_link,        \* the token in Redis: "absent" | "unused" | "used"
    pg_link,           \* its row in magic_links, likewise
    memory_link,       \* its entry in _memory_store, likewise
    verify_calls,      \* calls of verify_token so far
    returned,          \* calls of verify_token that returned the link data
    \* ---- the session's commands and what the handler did for them
    start_urls,        \* the url of every start command received, in order
    handler_frames,    \* the frames the handler itself gave to send_json
    saved,             \* persistence: "not_called" | "id" | "none" | "raised"
    summary,           \* what the mapping made of the result, per mapped agent
    ws_url,            \* the handler's local variable url
    complete_data,     \* the counts in the data of the analysis_complete frame
    saved_url,         \* the url argument save_analysis was called with
    threats            \* input: the url of each competitor threat the guardian lists

orchVars == <<agents, execution_tiers, insights, on_insight, on_progress, on_status,
              lists>>
agentVars == <<agent_status, agent_progress>>
sessVars == <<write_attempts, failed_writes>>
instVars == <<reset_count, other_pc, other_began, other_ret, other_emitted>>
oldVars == <<old_sender_pc, old_sender_msg, old_sender_timer>>
entryVars == <<competitor_urls, context_competitor_urls, rest_pc>>
queueVars == <<task_store, result_store, calls_started, worker_pc, worker_result,
               worker_results, worker_updates, worker_task>>
linkVars == <<redis_client, postgres_conn, now, link_stored, redis_link, pg_link,
              memory_link, verify_calls, returned>>
storeVars == <<queueVars, linkVars>>
cmdVars == <<start_urls, handler_frames, saved, summary, ws_url, complete_data,
             saved_url>>
runVars == <<pc, tier_idx, tier_tasks, task_state, task_result, agent_results,
             results, errors, agents_completed, agents_failed, ret>>
envVars == <<allowed, emitters, threats, launched, emitted>>
pumpVars == <<ws_pc, ws_open, message_queue, send_task_running, pending_messages,
              sender_pc, sender_msg, sender_timer, grace_timer, ws_writing, ws_sent>>
apiVars == <<orchVars, runVars, envVars, pumpVars, agentVars, sessVars, instVars,
             cmdVars, oldVars, entryVars>>
vars == <<apiVars, storeVars>>

----------------------------------------------------------------------------
\* AgentOrchestrator.__init__

\* Faulty variant: the guardian is not registered although its tier lists it.
InitAgentsWithoutGuardian == AgentIds \ {"guardian"}

InitAgents == AgentIds

\* Faulty variant: the strategist tier is listed before the tier it depends on.
InitExecutionTiersMisordered ==
    << <<"scout">>, <<"analyst">>, <<"strategist">>,
       <<"guardian", "prospector">>, <<"planner">> >>

InitExecutionTiers ==
    << <<"scout">>, <<"analyst">>, <<"guardian", "prospector">>,
       <<"strategist">>, <<"planner">> >>

\* The dependencies the class documents for each agent.
Dependencies ==
    [a \in AgentIds |->
        CASE a = "scout" -> {}
          [] a = "analyst" -> {"scout"}
          [] a = "guardian" -> {"analyst"}
          [] a = "prospector" -> {"analyst"}
          [] a = "strategist" -> {"analyst", "guardian", "prospector"}
          [] a = "planner" -> {"analyst", "strategist"}]

----------------------------------------------------------------------------
\* Helpers of run_analysis

IsException(result) == result \in Exceptions

\* str(exception)
Str(result) == CASE result = "exc" -> "boom" [] OTHER -> result

\* f"{agent_id}: {str(result)}"
ErrorString(agent_id, msg) == <<agent_id, ": ", msg>>

\* tier_tasks: one coroutine per tier id that self.agents.get() finds.
TierTasks(tier) == SelectSeq(tier, LAMBDA agent_id : agent_id \in agents)

\* Faulty variant: resuming as soon as the first task resolves (FIRST_COMPLETED).
GatherDoneFirstCompleted(tasks) ==
    \E i \in 1..Len(tasks) : task_state[tasks[i]] \in {"returned", "raised"}

\* asyncio.gather resumes its caller once every awaitable has resolved.
GatherDone(tasks) ==
    \A i \in 1..Len(tasks) : task_state[tasks[i]] \in {"returned", "raised"}

\* Faulty variant: gather without return_exceptions re-raises a task's exception.
GatherRaisesTaskException(tier_results) ==
    \E i \in 1..Len(tier_results) : tier_results[i] \in Exceptions

\* With return_exceptions=True an exception is a value of the result list
\* and gather itself never raises.
GatherRaises(tier_results) == FALSE

\* Faulty variant: the context entry is written for a failed agent too.
RECURSIVE ProcessResultsStoresFailure(_, _, _, _)
ProcessResultsStoresFailure(tier, tier_results, idx, acc) ==
    IF idx > Len(tier_results) THEN acc
    ELSE LET agent_id == tier[idx]
             result == tier_results[idx]
         IN  IF result \in Exceptions
             THEN ProcessResultsStoresFailure(tier, tier_results, idx + 1,
                    [acc EXCEPT !.errors = Append(@, <<agent_id, ": ", "boom">>),
                                !.agents_failed = @ + 1,
                                !.agent_results = (agent_id :> result) @@ @])
             ELSE ProcessResultsStoresFailure(tier, tier_results, idx + 1,
                    [acc EXCEPT !.agent_results = (agent_id :> result) @@ @,
                                !.results = (agent_id :> result) @@ @,
                                !.agents_completed = @ + 1])

\* Faulty variant: the loop over a tier's outcomes stops at the first failure.
RECURSIVE ProcessResultsBreaksOnFailure(_, _, _, _)
ProcessResultsBreaksOnFailure(tier, tier_results, idx, acc) ==
    IF idx > Len(tier_results) THEN acc
    ELSE LET agent_id == tier[idx]
             result == tier_results[idx]
         IN  IF result \in Exceptions
             THEN [acc EXCEPT !.errors = Append(@, <<agent_id, ": ", "boom">>),
                              !.agents_failed = @ + 1]
             ELSE ProcessResultsBreaksOnFailure(tier, tier_results, idx + 1,
                    [acc EXCEPT !.agent_results = (agent_id :> result) @@ @,
                                !.results = (agent_id :> result) @@ @,
                                !.agents_completed = @ + 1])

\* for idx, result in enumerate(tier_results): ...
RECURSIVE ProcessResults(_, _, _, _)
ProcessResults(tier, tier_results, idx, acc) ==
    IF idx > Len(tier_results) THEN acc
    ELSE LET agent_id == tier[idx]
             result == tier_results[idx]
         IN  IF IsException(result)
             THEN ProcessResults(tier, tier_results, idx + 1,
                    [acc EXCEPT !.errors = Append(@, ErrorString(agent_id, Str(result))),
                                !.agents_failed = @ + 1])
             ELSE ProcessResults(tier, tier_results, idx + 1,
                    [acc EXCEPT !.agent_results = (agent_id :> result) @@ @,
                                !.results = (agent_id :> result) @@ @,
                                !.agents_completed = @ + 1])

\* Faulty variant: success judged by whether any agent completed.
SuccessIfAnyCompleted(completed, failed) == completed > 0

Success(completed, failed) == failed = 0

OrchestrationResult(acc) ==
    [success |-> Success(acc.agents_completed, acc.agents_failed),
     agents_completed |-> acc.agents_completed,
     agents_failed |-> acc.agents_failed,
     results |-> acc.results,
     errors |-> acc.errors,
     insights |-> insights]

----------------------------------------------------------------------------
\* Creating the tasks of tier i and handing them to gather.
LaunchTier(i, states, counts) ==
    LET tasks == TierTasks(execution_tiers[i])
        ids == {tasks[k] : k \in 1..Len(tasks)}
    IN  /\ tier_idx' = i
        /\ tier_tasks' = tasks
        /\ task_state' = [a \in AgentIds |-> IF a \in ids THEN "scheduled" ELSE states[a]]
        /\ launched' = [a \in AgentIds |->
                          counts[a] + Cardinality({k \in 1..Len(tasks) : tasks[k] = a})]

\* run_analysis up to its first await: fresh event list, context and
\* accumulators, then the first tier.
RunStartEffect ==
    /\ context_competitor_urls' = competitor_urls
    /\ lists' = Append(lists, <<>>)
    /\ insights' = Len(lists) + 1
    /\ agent_results' = <<>>
    /\ results' = <<>>
    /\ errors' = <<>>
    /\ agents_completed' = 0
    /\ agents_failed' = 0
    /\ ret' = NoResult
    /\ task_result' = [a \in AgentIds |-> Pending]
    /\ pc' = "gather"
    /\ LaunchTier(1, [a \in AgentIds |-> "none"], launched)

\* A direct call of run_analysis (no callbacks registered).
RunStart ==
    /\ pc = "idle"
    /\ RunStartEffect
    /\ UNCHANGED <<storeVars, competitor_urls, rest_pc, oldVars, cmdVars, agentVars,
                   sessVars, instVars,
                   agents, execution_tiers, on_insight,
                   on_progress, on_status, allowed, emitters, threats, emitted, pumpVars>>

\* The agent's own state machine, idle -> running -> completed | failed,
\* with its progress percentage at 100 once it has completed.
AgentLifecycle(a, status) ==
    /\ agent_status' = [agent_status EXCEPT ![a] = status]
    /\ agent_progress' = [agent_progress EXCEPT ![a] =
                             IF status = "completed" THEN 100 ELSE @]

\* The event loop starts a scheduled task: agent.run(context) begins.
AgentStart(a) ==
    /\ pc = "gather"
    /\ task_state[a] = "scheduled"
    /\ task_state' = [task_state EXCEPT ![a] = "running"]
    /\ AgentLifecycle(a, "running")
    /\ UNCHANGED <<storeVars, entryVars, oldVars, cmdVars, sessVars, instVars,
                   orchVars, envVars, pumpVars, pc, tier_idx, tier_tasks,
                   task_result, agent_results, results, errors,
                   agents_completed, agents_failed, ret>>

\* WSMessageType of the frame each callback builds.
MessageType(kind) ==
    CASE kind = "insight" -> "agent_insight"
      [] kind = "progress" -> "agent_progress"
      [] kind = "status" -> "agent_status"

\* The frame sync_insight / sync_progress / sync_complete builds.
WSMessage(ev) == [type |-> MessageType(ev.kind), agent_id |-> ev.agent_id, id |-> ev.id]

\* Faulty variant: a queue created with maxsize 1.
QueueFullAtOne(q) == Len(q) >= 1

\* asyncio.Queue() has maxsize 0: it is never full.
QueueFull(q) == FALSE

\* sync_insight / sync_progress / sync_complete: put_nowait, then the
\* append to pending_messages; a QueueFull is caught and logged.
SyncCallback(ev) ==
    IF QueueFull(message_queue)
    THEN UNCHANGED <<message_queue, pending_messages>>
    ELSE /\ message_queue' = Append(message_queue, WSMessage(ev))
         /\ pending_messages' = Append(pending_messages, WSMessage(ev))

\* The callback slot an event kind is forwarded to.
CallbackFor(kind) ==
    CASE kind = "insight" -> on_insight
      [] kind = "progress" -> on_progress
      [] kind = "status" -> on_status

\* Faulty variant: an insight is stored only when no listener takes it.
HandleEventStoresOrForwards(ev) ==
    IF CallbackFor(ev.kind) = "ws"
    THEN /\ SyncCallback(ev)
         /\ lists' = lists
    ELSE /\ lists' = IF ev.kind = "insight"
                     THEN [lists EXCEPT ![insights] = Append(@, ev)]
                     ELSE lists
         /\ UNCHANGED <<message_queue, pending_messages>>

\* _handle_insight / _handle_progress / _handle_status: the insight is
\* appended to self._insights; each is forwarded to the registered callback.
HandleEvent(ev) ==
    /\ lists' = IF ev.kind = "insight"
                THEN [lists EXCEPT ![insights] = Append(@, ev)]
                ELSE lists
    /\ IF CallbackFor(ev.kind) = "ws"
       THEN SyncCallback(ev)
       ELSE UNCHANGED <<message_queue, pending_messages>>

\* The cap on the events of a run.  With two consumer tasks alive it takes
\* one event more for an event to wait in the queue while both write.
EventLimit == IF old_sender_pc = "none" THEN MaxEvents ELSE MaxEvents + 1

\* A running agent calls one of the context callbacks.
AgentEmit(a, kind) ==
    /\ pc = "gather"
    /\ task_state[a] = "running"
    /\ a \in emitters
    /\ emitted < EventLimit
    /\ emitted' = emitted + 1
    /\ HandleEvent([kind |-> kind, agent_id |-> a, id |-> emitted + 1])
    /\ UNCHANGED <<storeVars, entryVars, oldVars, cmdVars, agentVars, sessVars, instVars,
                   agents, execution_tiers, insights, on_insight,
                   on_progress, on_status, runVars, allowed, emitters, threats,
                   launched, ws_pc, ws_open, send_task_running,
                   sender_pc, sender_msg, sender_timer, grace_timer, ws_writing,
                   ws_sent>>

\* Faulty variant: the returning agent stores its own result in
\* context.agent_results, where its still running siblings can read it.
AgentFinishWritesContext(a, outcome) ==
    /\ pc = "gather"
    /\ task_state[a] = "running"
    /\ outcome \in allowed[a]
    /\ task_state' = [task_state EXCEPT ![a] =
                        IF IsException(outcome) THEN "raised" ELSE "returned"]
    /\ task_result' = [task_result EXCEPT ![a] = outcome]
    /\ agent_results' = IF IsException(outcome) THEN agent_results
                        ELSE (a :> outcome) @@ agent_results
    /\ AgentLifecycle(a, IF IsException(outcome) THEN "failed" ELSE "completed")
    /\ UNCHANGED <<storeVars, entryVars, oldVars, cmdVars, sessVars, instVars,
                   orchVars, envVars, pumpVars, pc, tier_idx, tier_tasks,
                   results, errors, agents_completed, agents_failed, ret>>

\* _run_agent: agent.run(context) returns, or raises and the exception is
\* logged and re-raised.
AgentFinish(a, outcome) ==
    /\ pc = "gather"
    /\ task_state[a] = "running"
    /\ outcome \in allowed[a]
    /\ task_state' = [task_state EXCEPT ![a] =
                        IF IsException(outcome) THEN "raised" ELSE "returned"]
    /\ task_result' = [task_result EXCEPT ![a] = outcome]
    /\ AgentLifecycle(a, IF IsException(outcome) THEN "failed" ELSE "completed")
    /\ UNCHANGED <<storeVars, entryVars, oldVars, cmdVars, sessVars, instVars,
                   orchVars, envVars, pumpVars, pc, tier_idx, tier_tasks,
                   agent_results, results, errors, agents_completed,
                   agents_failed, ret>>

\* gather resumes run_analysis: the tier's outcomes are processed, then the
\* next tier is launched or, after the last one, the result is returned.
TierStep ==
    /\ pc = "gather"
    /\ GatherDone(tier_tasks)
    /\ LET tier == execution_tiers[tier_idx]
           tier_results == [i \in 1..Len(tier_tasks) |-> task_result[tier_tasks[i]]]
           acc == ProcessResults(tier, tier_results, 1,
                     [agent_results |-> agent_results, results |-> results,
                      errors |-> errors, agents_completed |-> agents_completed,
                      agents_failed |-> agents_failed])
       IN  IF GatherRaises(tier_results)
           THEN /\ pc' = "raised"
                /\ UNCHANGED <<tier_idx, tier_tasks, task_state, agent_results,
                               results, errors, agents_completed, agents_failed,
                               ret, launched>>
           ELSE /\ agent_results' = acc.agent_results
                /\ results' = acc.results
                /\ errors' = acc.errors
                /\ agents_completed' = acc.agents_completed
                /\ agents_failed' = acc.agents_failed
                /\ IF tier_idx < Len(execution_tiers)
                   THEN /\ LaunchTier(tier_idx + 1, task_state, launched)
                        /\ pc' = "gather"
                        /\ ret' = ret
                   ELSE /\ pc' = "done"
                        /\ ret' = OrchestrationResult(acc)
                        /\ UNCHANGED <<tier_idx, tier_tasks, task_state, launched>>
    /\ UNCHANGED <<storeVars, entryVars, oldVars, cmdVars, agentVars, sessVars, instVars,
                   orchVars, task_result, allowed, emitters, threats, emitted, pumpVars>>

----------------------------------------------------------------------------
\* The WebSocket session: the handler of a start command (ws), the consumer
\* task message_sender (sender) and the transport.

EventTypes == {"agent_insight", "agent_progress", "agent_status"}

CompleteFrame == [type |-> "analysis_complete"]

\* Faulty variant: the loop looks at the flag only.
LoopConditionFlagOnly(running, q) == running

\* while send_task_running or not message_queue.empty()
LoopCondition(running, q) == running \/ q # <<>>

\* Where message_sender is after evaluating its while condition.
LoopCheck(running, q) == IF LoopCondition(running, q) THEN "get" ELSE "done"

\* Faulty variant: the newest item is taken first.
QueueGetNewest(q) == Len(q)

\* message_queue.get() returns the oldest item.
QueueGetIndex(q) == 1

QueueRemove(q, i) == [k \in 1..(Len(q) - 1) |-> IF k < i THEN q[k] ELSE q[k + 1]]

\* Faulty variant: the write is started without being awaited.
SenderFireAndForget == FALSE

\* message_sender awaits manager.send_json before it goes on.
SenderAwaitsSend == TRUE

\* orchestrator.set_callbacks(...): the handler registers sync_insight,
\* sync_progress and, for the agent-status events, sync_complete.
SetCallbacks(insight_cb, progress_cb, status_cb) ==
    /\ on_insight' = insight_cb
    /\ on_progress' = progress_cb
    /\ on_status' = status_cb

\* What data.get("url") can give: nothing (None), an empty string, a url.
Urls == {"none", "", "https://a"}

\* Faulty variant: only a missing url is refused.
NotUrlMissingOnly(url) == url = "none"

\* not url: the url is missing or empty.
NotUrl(url) == url \in {"none", ""}

\* The error frames of the handler: the refused start command, and
\* str(e) of an exception caught around the analysis.
UrlRequiredFrame == [type |-> "error", error |-> "URL is required"]
AnalysisErrorFrame == [type |-> "error", error |-> "exception"]

\* await manager.send_json(websocket, frame) in the handler: the write
\* begins and the handler waits for it, or it fails at once on a closed
\* connection and the handler goes on.
HandlerSend(frame, waiting, after) ==
    /\ handler_frames' = Append(handler_frames, frame)
    /\ IF ws_open
       THEN /\ ws_writing' = ws_writing \cup {frame}
            /\ ws_pc' = waiting
       ELSE /\ ws_writing' = ws_writing
            /\ ws_pc' = after

\* A start command without a url: the error frame, then continue.
WsStartNoUrl(url) ==
    /\ ws_pc = "recv"
    /\ ws_open
    /\ NotUrl(url)
    /\ Len(SelectSeq(start_urls, NotUrl)) < MaxBadStarts
    /\ start_urls' = Append(start_urls, url)
    /\ ws_url' = url
    /\ HandlerSend(UrlRequiredFrame, "send_error", "recv")
    /\ UNCHANGED <<storeVars, entryVars, oldVars, agentVars, sessVars, instVars,
                   orchVars, runVars, envVars,
                   ws_open, message_queue, send_task_running, pending_messages,
                   sender_pc, sender_msg, sender_timer, grace_timer, ws_sent,
                   saved, summary, complete_data, saved_url>>

\* Lines 275-364 of a start command with a url: queue, flag and consumer
\* task are created and the callbacks registered.
StartSetup(url) ==
    /\ ws_pc = "recv"
    /\ ws_open
    /\ pc = "idle"
    /\ ~NotUrl(url)
    /\ start_urls' = Append(start_urls, url)
    /\ ws_url' = url
    /\ message_queue' = <<>>
    /\ send_task_running' = TRUE
    /\ sender_pc' = "created"
    /\ pending_messages' = <<>>
    /\ SetCallbacks("ws", "ws", "ws")
    /\ ws_pc' = "await_run"

\* A start command with a url whose run_analysis raises while it prepares
\* the run, before any tier: the handler's except branch sends the error
\* frame.  The consumer task stays as it was created.
WsStartRunRaises(url) ==
    /\ StartSetup(url)
    /\ lists' = Append(lists, <<>>)
    /\ insights' = Len(lists) + 1
    /\ pc' = "raised"
    /\ UNCHANGED <<storeVars, entryVars, oldVars, agentVars, sessVars, instVars, agents,
                   execution_tiers, tier_idx,
                   tier_tasks, task_state, task_result, agent_results, results,
                   errors, agents_completed, agents_failed, ret, envVars, ws_open,
                   sender_msg, sender_timer, grace_timer, ws_writing, ws_sent,
                   handler_frames, saved, summary, complete_data, saved_url>>

\* A start command with a url: queue, flag and consumer task are created,
\* the callbacks registered, and run_analysis is entered.
WsStart(url) ==
    /\ StartSetup(url)
    /\ RunStartEffect
    /\ UNCHANGED <<storeVars, competitor_urls, rest_pc, oldVars, handler_frames, saved, summary,
                   complete_data, saved_url>>
    /\ UNCHANGED <<agentVars, sessVars, instVars,
                   agents, execution_tiers, allowed, emitters, threats, emitted,
                   ws_open, sender_msg,
                   sender_timer, grace_timer, ws_writing, ws_sent>>

\* The consumer task starts: first evaluation of the while condition.
SenderStart ==
    /\ sender_pc = "created"
    /\ sender_pc' = LoopCheck(send_task_running, message_queue)
    /\ sender_timer' = IF sender_pc' = "get" THEN TimeoutTicks ELSE 0
    /\ UNCHANGED <<storeVars, entryVars, oldVars, cmdVars, agentVars, sessVars, instVars,
                   orchVars, runVars, envVars, ws_pc, ws_open, message_queue,
                   send_task_running, pending_messages, sender_msg, grace_timer,
                   ws_writing, ws_sent>>

\* Faulty variant: once a write has failed, the consumer drops what it
\* dequeues without handing it to send_json.
SendJsonSkippedAfterFailure(failed) == failed = 0

\* message_sender hands every message it dequeues to manager.send_json,
\* however many earlier writes failed: send_json does not tell it.
SendJsonCalled(failed) == TRUE

\* Faulty variant: the exception of a failed write ends the consumer task.
SenderDiesOnFailedWrite == "failed"

\* Where message_sender is after a write failed: send_json caught and
\* logged the exception and returned, so the delay starts as after a
\* write that succeeded.
SenderAfterFailedWrite == "sleep"

\* wait_for(message_queue.get()) returns a message and manager.send_json
\* is called with it: send_text begins, or fails at once on a closed
\* connection (logged by send_json), after which the delay starts.
SenderGet ==
    /\ sender_pc = "get"
    /\ message_queue # <<>>
    /\ LET i == QueueGetIndex(message_queue)
           msg == message_queue[i]
       IN  /\ message_queue' = QueueRemove(message_queue, i)
           /\ IF ~SendJsonCalled(failed_writes)
              THEN /\ ws_writing' = ws_writing
                   /\ sender_pc' = "sleep"
                   /\ sender_msg' = NoMsg
                   /\ sender_timer' = SleepTicks
                   /\ UNCHANGED <<write_attempts, failed_writes>>
              ELSE IF ws_open
              THEN /\ ws_writing' = ws_writing \cup {msg}
                   /\ write_attempts' = write_attempts + 1
                   /\ failed_writes' = failed_writes
                   /\ IF SenderAwaitsSend
                      THEN /\ sender_pc' = "send"
                           /\ sender_msg' = msg
                           /\ sender_timer' = 0
                      ELSE /\ sender_pc' = "sleep"
                           /\ sender_msg' = NoMsg
                           /\ sender_timer' = SleepTicks
              ELSE /\ ws_writing' = ws_writing
                   /\ write_attempts' = write_attempts + 1
                   /\ failed_writes' = failed_writes + 1
                   /\ sender_pc' = SenderAfterFailedWrite
                   /\ sender_msg' = NoMsg
                   /\ sender_timer' = IF sender_pc' = "sleep" THEN SleepTicks ELSE 0
    /\ UNCHANGED <<storeVars, entryVars, oldVars, cmdVars, agentVars, instVars,
                   orchVars, runVars, envVars, ws_pc, ws_open, send_task_running,
                   pending_messages, grace_timer, ws_sent>>

\* The dequeue timed out: TimeoutError, continue, while condition.
SenderTimeout ==
    /\ sender_pc = "get"
    /\ sender_timer = 0
    /\ sender_pc' = LoopCheck(send_task_running, message_queue)
    /\ sender_timer' = IF sender_pc' = "get" THEN TimeoutTicks ELSE 0
    /\ UNCHANGED <<storeVars, entryVars, oldVars, cmdVars, agentVars, sessVars, instVars,
                   orchVars, runVars, envVars, ws_pc, ws_open, message_queue,
                   send_task_running, pending_messages, sender_msg, grace_timer,
                   ws_writing, ws_sent>>

\* The delay after a message is over: while condition.
SenderWake ==
    /\ sender_pc = "sleep"
    /\ sender_timer = 0
    /\ sender_pc' = LoopCheck(send_task_running, message_queue)
    /\ sender_timer' = IF sender_pc' = "get" THEN TimeoutTicks ELSE 0
    /\ UNCHANGED <<storeVars, entryVars, oldVars, cmdVars, agentVars, sessVars, instVars,
                   orchVars, runVars, envVars, ws_pc, ws_open, message_queue,
                   send_task_running, pending_messages, sender_msg, grace_timer,
                   ws_writing, ws_sent>>

\* The transport finishes the write of frame m (send_text returns), or the
\* write fails because the client has gone (send_json logs it).  Whoever
\* awaits the write resumes.
TransportWriteEnd(m) ==
    /\ m \in ws_writing
    /\ ws_writing' = ws_writing \ {m}
    /\ ws_sent' = IF ws_open THEN Append(ws_sent, m) ELSE ws_sent
    /\ IF sender_pc = "send" /\ sender_msg = m
       THEN /\ sender_pc' = IF ws_open THEN "sleep" ELSE SenderAfterFailedWrite
            /\ sender_msg' = NoMsg
            /\ sender_timer' = IF sender_pc' = "sleep" THEN SleepTicks ELSE 0
       ELSE UNCHANGED <<sender_pc, sender_msg, sender_timer>>
    /\ IF old_sender_pc = "send" /\ old_sender_msg = m
       THEN /\ old_sender_pc' = IF ws_open THEN "sleep" ELSE SenderAfterFailedWrite
            /\ old_sender_msg' = NoMsg
            /\ old_sender_timer' = IF old_sender_pc' = "sleep" THEN SleepTicks ELSE 0
       ELSE UNCHANGED oldVars
    /\ failed_writes' =
          IF ~ws_open /\ \/ sender_pc = "send" /\ sender_msg = m
                         \/ old_sender_pc = "send" /\ old_sender_msg = m
          THEN failed_writes + 1
          ELSE failed_writes
    /\ ws_pc' = CASE ws_pc = "send_complete" /\ m = CompleteFrame -> "persist"
                  [] ws_pc = "send_error" /\ m.type = "error" -> "recv"
                  [] OTHER -> ws_pc
    /\ UNCHANGED <<storeVars, entryVars, cmdVars, agentVars, write_attempts, instVars,
                   orchVars, runVars, envVars, ws_open, message_queue,
                   send_task_running, pending_messages, grace_timer>>

\* run_analysis returned to the handler: the flag is cleared and the grace
\* delay starts.
WsRunReturned ==
    /\ ws_pc = "await_run"
    /\ pc = "done"
    /\ send_task_running' = FALSE
    /\ ws_pc' = "grace"
    /\ grace_timer' = GraceTicks
    /\ UNCHANGED <<storeVars, entryVars, oldVars, cmdVars, agentVars, sessVars, instVars,
                   orchVars, runVars, envVars, ws_open, message_queue,
                   pending_messages, sender_pc, sender_msg, sender_timer,
                   ws_writing, ws_sent>>

\* The grace delay is over: sender_task.cancel() and await sender_task.  A
\* task that has not finished ends with CancelledError at its await; a
\* write it was waiting for is abandoned.
WsCancelSender ==
    /\ ws_pc = "grace"
    /\ grace_timer = 0
    /\ sender_pc' = IF sender_pc = "done" THEN "done" ELSE "cancelled"
    /\ ws_writing' = IF sender_pc = "send" THEN ws_writing \ {sender_msg} ELSE ws_writing
    /\ sender_msg' = NoMsg
    /\ sender_timer' = 0
    /\ ws_pc' = "mapping"
    /\ UNCHANGED <<storeVars, entryVars, oldVars, cmdVars, agentVars, sessVars, instVars,
                   orchVars, runVars, envVars, ws_open, message_queue,
                   send_task_running, pending_messages, grace_timer, ws_sent>>

\* A result that is not a dict (None): .get on it raises.
Malformed == "malformed"

\* The agents whose results the handler maps for the client.
MappedAgents == {"analyst", "guardian", "prospector", "strategist", "planner"}

\* Before the mapping nothing has been taken from any result.
NotMapped == [a \in MappedAgents |-> "none"]

\* Faulty variant: the lookup has no default, an absent agent gives None.
GetNoDefault(res, k) == IF k \in DOMAIN res THEN res[k] ELSE Malformed

\* agent_results.get(k, {}): an absent agent gives an empty dict.
Get(res, k) == IF k \in DOMAIN res THEN res[k] ELSE "empty"

\* The mapping reads fields with .get from the analyst's, guardian's,
\* prospector's and strategist's result; the planner's is read only if it
\* is truthy.
MappingRaises(res) ==
    \E a \in MappedAgents \ {"planner"} : Get(res, a) = Malformed

\* What the mapping takes from each agent's result: the values of a
\* non-empty dict, and otherwise the defaults of its .get calls (for the
\* planner: no action plan).
Mapping(res) ==
    [a \in MappedAgents |-> IF Get(res, a) = "data" THEN "value" ELSE "default"]

\* No analysis_complete frame has been built.
NoData == [none |-> TRUE]

\* bool(r) of a result: None and an empty dict are falsy.
Truthy(r) == r \notin {"empty", Malformed}

\* The counts in the data of the analysis_complete frame:
\* len([r for r in agent_results.values() if r]) and len(result.errors).
CompleteData(res) ==
    [success |-> res.success,
     agents_completed |->
         Cardinality({a \in DOMAIN res.results : Truthy(res.results[a])}),
     agents_failed |-> Len(res.errors)]

\* The assessments a guardian result can list, each given by what it has
\* under 'url': a url, or nothing ("none").
ThreatLists == {<<>>, <<"https://c">>, <<"https://c", "none">>}

\* ct.get('url', '')
ThreatUrl(ct) == IF ct = "none" THEN "" ELSE ct

\* guardian_result.get('competitor_threat_assessment', {})
\*                .get('assessments', [])
CompetitorThreats(res) == IF Get(res, "guardian") = "data" THEN threats ELSE <<>>

\* for ct in competitor_threats: ... url = ct.get('url', '') ...
\* The loop assigns the handler's variable url in every iteration.
RECURSIVE UrlAfterThreats(_, _, _)
UrlAfterThreats(u, cts, i) ==
    IF i > Len(cts) THEN u ELSE UrlAfterThreats(ThreatUrl(cts[i]), cts, i + 1)

SaveOutcomes == {"id", "none", "raised"}

\* The result is mapped and the analysis_complete frame is handed to
\* manager.send_json.
WsSendComplete ==
    /\ ws_pc = "mapping"
    /\ ~MappingRaises(ret.results)
    /\ summary' = Mapping(ret.results)
    /\ ws_url' = UrlAfterThreats(ws_url, CompetitorThreats(ret.results), 1)
    /\ complete_data' = CompleteData(ret)
    /\ HandlerSend(CompleteFrame, "send_complete", "persist")
    /\ UNCHANGED <<storeVars, entryVars, oldVars, agentVars, sessVars, instVars,
                   orchVars, runVars, envVars, ws_open, message_queue,
                   send_task_running, pending_messages, sender_pc, sender_msg,
                   sender_timer, grace_timer, ws_sent, start_urls, saved,
                   saved_url>>

\* Faulty variant: the exception is logged and no frame is sent.
OnAnalysisErrorLogOnly ==
    /\ ws_pc' = "recv"
    /\ UNCHANGED <<storeVars, entryVars, oldVars, handler_frames, ws_writing>>

\* except Exception as e around the analysis: the error frame is sent.
OnAnalysisError == HandlerSend(AnalysisErrorFrame, "send_error", "recv")

\* The mapping of the result raises: the handler's except branch.
WsMappingRaised ==
    /\ ws_pc = "mapping"
    /\ MappingRaises(ret.results)
    /\ ws_url' = IF \E a \in {"analyst", "guardian"} : Get(ret.results, a) = Malformed
                 THEN ws_url
                 ELSE UrlAfterThreats(ws_url, CompetitorThreats(ret.results), 1)
    /\ OnAnalysisError
    /\ UNCHANGED <<storeVars, entryVars, oldVars, agentVars, sessVars, instVars,
                   orchVars, runVars, envVars, ws_open, message_queue,
                   send_task_running, pending_messages, sender_pc, sender_msg,
                   sender_timer, grace_timer, ws_sent, start_urls, saved, summary,
                   complete_data, saved_url>>

\* run_analysis raised: the handler's except branch.  The flag is not
\* cleared and the consumer task is not cancelled on this path.
WsRunRaised ==
    /\ ws_pc = "await_run"
    /\ pc = "raised"
    /\ OnAnalysisError
    /\ UNCHANGED <<storeVars, entryVars, oldVars, agentVars, sessVars, instVars,
                   orchVars, runVars, envVars, ws_open, message_queue,
                   send_task_running, pending_messages, sender_pc, sender_msg,
                   sender_timer, grace_timer, ws_sent, start_urls, saved, summary,
                   ws_url, complete_data, saved_url>>

\* Faulty variant: an exception of the persistence calls reaches the
\* except branch around the analysis.
SaveErrorPropagates == FALSE

\* The persistence calls have a try/except Exception of their own, which
\* logs a warning.
SaveErrorCaught == TRUE

\* After the analysis_complete frame: save_analysis, then, if it returned
\* an id, save_agent_insight for every insight message.  save_analysis
\* returns an id, or None (no connection, insert failed), or raises; an
\* exception of either call is logged.
WsPersist(outcome) ==
    /\ ws_pc = "persist"
    /\ saved' = outcome
    /\ saved_url' = ws_url
    /\ IF outcome = "raised" /\ ~SaveErrorCaught
       THEN OnAnalysisError
       ELSE /\ ws_pc' = "recv"
            /\ UNCHANGED <<handler_frames, ws_writing>>
    /\ UNCHANGED <<storeVars, entryVars, oldVars, agentVars, sessVars, instVars,
                   orchVars, runVars, envVars, ws_open, message_queue,
                   send_task_running, pending_messages, sender_pc, sender_msg,
                   sender_timer, grace_timer, ws_sent, start_urls, summary,
                   ws_url, complete_data>>

\* A later start command, with a url, in a session whose earlier start
\* command ended with run_analysis raising.  The consumer task of the
\* earlier command still loops, waiting at the queue it last saw.  The
\* names message_queue and send_task_running, which its closure reads, are
\* now bound to the new queue and the new flag, and sender_task to the new
\* task.
WsStartAgain(url) ==
    /\ ws_pc = "recv"
    /\ ws_open
    /\ pc = "raised"
    /\ ~NotUrl(url)
    /\ old_sender_pc = "none"
    /\ sender_pc = "get"
    /\ old_sender_pc' = "get_old"
    /\ old_sender_msg' = NoMsg
    /\ old_sender_timer' = sender_timer
    /\ start_urls' = Append(start_urls, url)
    /\ ws_url' = url
    /\ message_queue' = <<>>
    /\ send_task_running' = TRUE
    /\ sender_pc' = "created"
    /\ sender_msg' = NoMsg
    /\ sender_timer' = 0
    /\ pending_messages' = <<>>
    /\ SetCallbacks("ws", "ws", "ws")
    /\ ws_pc' = "await_run"
    /\ RunStartEffect
    /\ UNCHANGED <<storeVars, competitor_urls, rest_pc, agentVars, sessVars, instVars, agents,
                   execution_tiers, allowed,
                   emitters, threats, emitted, ws_open, grace_timer, ws_writing,
                   ws_sent, handler_frames, saved, summary, complete_data,
                   saved_url>>

\* The earlier consumer's dequeue timed out (at the queue it waited at, or
\* at the current one): continue, while condition on the current flag and
\* the current queue.
OldSenderTimeout ==
    /\ old_sender_pc \in {"get_old", "get"}
    /\ old_sender_timer = 0
    /\ old_sender_pc' = LoopCheck(send_task_running, message_queue)
    /\ old_sender_timer' = IF old_sender_pc' = "get" THEN TimeoutTicks ELSE 0
    /\ UNCHANGED <<storeVars, entryVars, old_sender_msg, cmdVars, agentVars, sessVars,
                   instVars, orchVars,
                   runVars, envVars, pumpVars>>

\* The earlier consumer dequeues a message of the current queue and hands
\* it to manager.send_json.
OldSenderGet ==
    /\ old_sender_pc = "get"
    /\ message_queue # <<>>
    /\ LET i == QueueGetIndex(message_queue)
           msg == message_queue[i]
       IN  /\ message_queue' = QueueRemove(message_queue, i)
           /\ write_attempts' = write_attempts + 1
           /\ IF ws_open
              THEN /\ ws_writing' = ws_writing \cup {msg}
                   /\ failed_writes' = failed_writes
                   /\ old_sender_pc' = "send"
                   /\ old_sender_msg' = msg
                   /\ old_sender_timer' = 0
              ELSE /\ ws_writing' = ws_writing
                   /\ failed_writes' = failed_writes + 1
                   /\ old_sender_pc' = SenderAfterFailedWrite
                   /\ old_sender_msg' = NoMsg
                   /\ old_sender_timer' = SleepTicks
    /\ UNCHANGED <<storeVars, entryVars, cmdVars, agentVars, instVars, orchVars, runVars,
                   envVars,
                   ws_pc, ws_open, send_task_running, pending_messages, sender_pc,
                   sender_msg, sender_timer, grace_timer, ws_sent>>

\* The earlier consumer's delay after a message is over: while condition.
OldSenderWake ==
    /\ old_sender_pc = "sleep"
    /\ old_sender_timer = 0
    /\ old_sender_pc' = LoopCheck(send_task_running, message_queue)
    /\ old_sender_timer' = IF old_sender_pc' = "get" THEN TimeoutTicks ELSE 0
    /\ UNCHANGED <<storeVars, entryVars, old_sender_msg, cmdVars, agentVars, sessVars,
                   instVars, orchVars,
                   runVars, envVars, pumpVars>>

\* The client goes away.
ClientDisconnect ==
    /\ ws_pc \notin {"none", "closed"}
    /\ ws_open
    /\ ws_open' = FALSE
    /\ UNCHANGED <<storeVars, entryVars, oldVars, cmdVars, agentVars, sessVars, instVars,
                   orchVars, runVars, envVars, ws_pc, message_queue,
                   send_task_running, pending_messages, sender_pc, sender_msg,
                   sender_timer, grace_timer, ws_writing, ws_sent>>

\* receive_json raises WebSocketDisconnect: manager.disconnect, handler ends.
WsReceiveDisconnect ==
    /\ ws_pc = "recv"
    /\ ~ws_open
    /\ ws_pc' = "closed"
    /\ UNCHANGED <<storeVars, entryVars, oldVars, cmdVars, agentVars, sessVars, instVars,
                   orchVars, runVars, envVars, ws_open, message_queue,
                   send_task_running, pending_messages, sender_pc, sender_msg,
                   sender_timer, grace_timer, ws_writing, ws_sent>>

\* Some step that takes no time is due.
Ready ==
    \/ sender_pc = "created"
    \/ sender_pc = "get" /\ (message_queue # <<>> \/ sender_timer = 0)
    \/ sender_pc = "sleep" /\ sender_timer = 0
    \/ ws_pc = "await_run" /\ pc = "done"
    \/ ws_pc = "grace" /\ grace_timer = 0
    \/ ws_pc = "mapping"
    \/ ws_pc = "persist"
    \/ ws_pc = "await_run" /\ pc = "raised"
    \/ old_sender_pc \in {"get_old", "get", "sleep"} /\ old_sender_timer = 0
    \/ old_sender_pc = "get" /\ message_queue # <<>>
    \/ pc = "gather" /\ GatherDone(tier_tasks)
    \/ pc = "gather" /\ \E a \in AgentIds : task_state[a] = "scheduled"

\* 20 ms pass: every running timer counts down.
Tick ==
    /\ ~Ready
    /\ \/ sender_pc \in {"get", "sleep"}
       \/ ws_pc = "grace"
       \/ old_sender_pc \in {"get_old", "get", "sleep"}
    /\ sender_timer' = IF sender_pc \in {"get", "sleep"} THEN sender_timer - 1 ELSE sender_timer
    /\ grace_timer' = IF ws_pc = "grace" THEN grace_timer - 1 ELSE grace_timer
    /\ old_sender_timer' = IF old_sender_pc \in {"get_old", "get", "sleep"}
                           THEN old_sender_timer - 1
                           ELSE old_sender_timer
    /\ UNCHANGED <<storeVars, entryVars, old_sender_pc, old_sender_msg, cmdVars,
                   agentVars, sessVars, instVars,
                   orchVars, runVars, envVars, ws_pc, ws_open, message_queue,
                   send_task_running, pending_messages, sender_pc, sender_msg,
                   ws_writing, ws_sent>>

----------------------------------------------------------------------------
\* Other calls on the same AgentOrchestrator instance.

\* What reset() reads and writes: the agents' status and progress and the
\* value of self._insights.
OrchState ==
    [status |-> agent_status, progress |-> agent_progress, events |-> lists[insights]]

\* Faulty variant: an agent that failed keeps its status.
ResetOfSkipsFailed(st) ==
    [status |-> [a \in DOMAIN st.status |->
                    IF st.status[a] = "failed" THEN "failed" ELSE "idle"],
     progress |-> [a \in DOMAIN st.progress |-> 0],
     events |-> <<>>]

\* reset() as a function of that state.
ResetOf(st) ==
    [status |-> [a \in DOMAIN st.status |-> "idle"],
     progress |-> [a \in DOMAIN st.progress |-> 0],
     events |-> <<>>]

\* reset(): nothing in the code stops a call while a run is in progress.
\* self._insights is bound to a new list.
Reset ==
    /\ reset_count < MaxResets
    /\ reset_count' = reset_count + 1
    /\ agent_status' = ResetOf(OrchState).status
    /\ agent_progress' = ResetOf(OrchState).progress
    /\ lists' = Append(lists, ResetOf(OrchState).events)
    /\ insights' = Len(lists) + 1
    /\ UNCHANGED <<storeVars, entryVars, oldVars, cmdVars, sessVars, agents,
                   execution_tiers, on_insight, on_progress,
                   on_status, runVars, envVars, pumpVars, other_pc, other_began,
                   other_ret, other_emitted>>

\* A second caller enters run_analysis on the same instance, before, while
\* or after the first call runs.  Of this call the model keeps what it
\* shares with the first: it binds self._insights to a new list.
OtherRunStart ==
    /\ other_pc = "idle"
    /\ other_pc' = "running"
    /\ other_began' = pc
    /\ lists' = Append(lists, <<>>)
    /\ insights' = Len(lists) + 1
    /\ UNCHANGED <<storeVars, entryVars, oldVars, cmdVars, agentVars, sessVars, agents,
                   execution_tiers, on_insight,
                   on_progress, on_status, runVars, envVars, pumpVars, reset_count,
                   other_ret, other_emitted>>

\* The second caller is another WebSocket session: its handler registers
\* its own callbacks on the instance and enters run_analysis.
OtherWsStart ==
    /\ other_pc = "idle"
    /\ other_pc' = "running"
    /\ other_began' = pc
    /\ lists' = Append(lists, <<>>)
    /\ insights' = Len(lists) + 1
    /\ SetCallbacks("other", "other", "other")
    /\ UNCHANGED <<storeVars, entryVars, oldVars, cmdVars, agentVars, sessVars, agents,
                   execution_tiers,
                   runVars, envVars, pumpVars, reset_count, other_ret,
                   other_emitted>>

\* An agent running for the second call calls one of its context's
\* callbacks, which are the same bound methods of the instance.
OtherRunEmit(a, kind) ==
    /\ other_pc = "running"
    /\ a \in emitters
    /\ emitted < MaxEvents
    /\ emitted' = emitted + 1
    /\ HandleEvent([kind |-> kind, agent_id |-> a, id |-> emitted + 1, run |-> 2])
    /\ other_emitted' = other_emitted \cup {emitted + 1}
    /\ UNCHANGED <<storeVars, entryVars, oldVars, cmdVars, agentVars, sessVars,
                   reset_count, other_pc,
                   other_began, other_ret, agents, execution_tiers, insights,
                   on_insight, on_progress, on_status, runVars, allowed, emitters, threats,
                   launched, ws_pc, ws_open, send_task_running, sender_pc,
                   sender_msg, sender_timer, grace_timer, ws_writing, ws_sent>>

\* The second call returns its OrchestrationResult, whose insights field
\* is the list self._insights is bound to at that moment.
OtherRunReturn ==
    /\ other_pc = "running"
    /\ other_pc' = "done"
    /\ other_ret' = [insights |-> insights]
    /\ UNCHANGED <<storeVars, entryVars, oldVars, cmdVars, agentVars, sessVars, orchVars,
                   runVars, envVars,
                   pumpVars, reset_count, other_began, other_emitted>>

----------------------------------------------------------------------------
InitRequest(may, emit, session, urls) ==
    /\ agents = InitAgents
    /\ execution_tiers = InitExecutionTiers
    /\ lists = << <<>> >>
    /\ insights = 1
    /\ on_insight = "none"
    /\ on_progress = "none"
    /\ on_status = "none"
    /\ pc = "idle"
    /\ tier_idx = 0
    /\ tier_tasks = <<>>
    /\ task_state = [a \in AgentIds |-> "none"]
    /\ task_result = [a \in AgentIds |-> Pending]
    /\ agent_results = <<>>
    /\ results = <<>>
    /\ errors = <<>>
    /\ agents_completed = 0
    /\ agents_failed = 0
    /\ ret = NoResult
    /\ allowed = may
    /\ emitters = emit
    /\ launched = [a \in AgentIds |-> 0]
    /\ emitted = 0
    /\ ws_pc = session
    /\ ws_open = (session # "none")
    /\ message_queue = <<>>
    /\ send_task_running = FALSE
    /\ pending_messages = <<>>
    /\ sender_pc = "none"
    /\ sender_msg = NoMsg
    /\ sender_timer = 0
    /\ grace_timer = 0
    /\ ws_writing = {}
    /\ ws_sent = <<>>
    /\ agent_status = [a \in InitAgents |-> "idle"]
    /\ agent_progress = [a \in InitAgents |-> 0]
    /\ write_attempts = 0
    /\ failed_writes = 0
    /\ reset_count = 0
    /\ other_pc = "idle"
    /\ other_began = "none"
    /\ other_ret = NoResult
    /\ other_emitted = {}
    /\ old_sender_pc = "none"
    /\ old_sender_msg = NoMsg
    /\ old_sender_timer = 0
    /\ competitor_urls = urls
    /\ context_competitor_urls = <<>>
    /\ rest_pc = "none"
    /\ start_urls = <<>>
    /\ handler_frames = <<>>
    /\ saved = "not_called"
    /\ summary = NotMapped
    /\ ws_url = "none"
    /\ complete_data = NoData
    /\ saved_url = "none"
    /\ threats = <<>>

Workers == {"w1", "w2"}

\* get_task_status of a missing key.
NoTask == [status |-> "not_found"]

\* No task has been created and no worker is inside add_result.
InitQueue ==
    /\ task_store = NoTask
    /\ result_store = <<>>
    /\ calls_started = 0
    /\ worker_pc = [w \in Workers |-> "idle"]
    /\ worker_result = [w \in Workers |-> 0]
    /\ worker_results = [w \in Workers |-> <<>>]
    /\ worker_updates = [w \in Workers |-> NoTask]
    /\ worker_task = [w \in Workers |-> NoTask]

\* MagicLinkStorage.__init__ with the given clients; no token stored.
InitLink(redis, postgres) ==
    /\ redis_client = redis
    /\ postgres_conn = postgres
    /\ now = 0
    /\ link_stored = FALSE
    /\ redis_link = "absent"
    /\ pg_link = "absent"
    /\ memory_link = "absent"
    /\ verify_calls = 0
    /\ returned = 0

InitStores == InitQueue /\ InitLink(FALSE, FALSE)

\* A request that names no competitors.
InitWith(may, emit, session) ==
    InitRequest(may, emit, session, <<>>) /\ InitStores

Init == InitWith([a \in AgentIds |-> Outcomes], AgentIds, "none")

Next ==
    \/ RunStart
    \/ \E a \in AgentIds : AgentStart(a)
    \/ \E a \in AgentIds, kind \in EventKinds : AgentEmit(a, kind)
    \/ \E a \in AgentIds, outcome \in Outcomes : AgentFinish(a, outcome)
    \/ TierStep

Spec == Init /\ [][Next]_vars

\* A WebSocket session that has been accepted.  Every agent returns a
\* non-empty result; events come from the two agents of the parallel tier.
PumpAllowed == [a \in AgentIds |-> {"data"}]

PumpEmitters == {"guardian", "prospector"}

InitPump == InitWith(PumpAllowed, PumpEmitters, "recv")

NextPump ==
    \/ \E url \in Urls : WsStart(url)
    \/ \E a \in AgentIds : AgentStart(a)
    \/ \E a \in AgentIds, kind \in EventKinds : AgentEmit(a, kind)
    \/ \E a \in AgentIds, outcome \in Outcomes : AgentFinish(a, outcome)
    \/ TierStep
    \/ SenderStart
    \/ SenderGet
    \/ SenderTimeout
    \/ SenderWake
    \/ \E m \in ws_writing : TransportWriteEnd(m)
    \/ WsRunReturned
    \/ WsCancelSender
    \/ WsSendComplete
    \/ \E outcome \in SaveOutcomes : WsPersist(outcome)
    \/ ClientDisconnect
    \/ WsReceiveDisconnect
    \/ Tick

SpecPump == InitPump /\ [][NextPump]_vars

\* A WebSocket session whose client sends start commands with and without
\* a url.  One agent of the parallel tier emits the events and may fail or
\* return something that is not a dict; run_analysis itself may raise.
SessionAllowed ==
    [a \in AgentIds |->
        IF a = "guardian" THEN {"data", "exc", Malformed} ELSE {"data"}]

SessionEmitters == {"guardian"}

InitSession == InitWith(SessionAllowed, SessionEmitters, "recv")

NextSession ==
    \/ \E url \in Urls : WsStartNoUrl(url)
    \/ \E url \in Urls : WsStart(url)
    \/ \E url \in Urls : WsStartRunRaises(url)
    \/ \E a \in AgentIds : AgentStart(a)
    \/ \E a \in AgentIds, kind \in EventKinds : AgentEmit(a, kind)
    \/ \E a \in AgentIds, outcome \in Outcomes \cup {Malformed} : AgentFinish(a, outcome)
    \/ TierStep
    \/ SenderStart
    \/ SenderGet
    \/ SenderTimeout
    \/ SenderWake
    \/ \E m \in ws_writing : TransportWriteEnd(m)
    \/ WsRunReturned
    \/ WsRunRaised
    \/ WsCancelSender
    \/ WsSendComplete
    \/ WsMappingRaised
    \/ \E outcome \in SaveOutcomes : WsPersist(outcome)
    \/ ClientDisconnect
    \/ WsReceiveDisconnect
    \/ Tick

SpecSession == InitSession /\ [][NextSession]_vars

\* The handler at the mapping of a returned result, for every combination
\* of agent outcomes: the state a session is in when its run has returned
\* without events and the consumer has ended within the grace delay.
RECURSIVE RunTiers(_, _, _)
RunTiers(i, outcome, acc) ==
    IF i > Len(InitExecutionTiers) THEN acc
    ELSE LET tier == InitExecutionTiers[i]
             tier_results == [k \in 1..Len(tier) |-> outcome[tier[k]]]
         IN  RunTiers(i + 1, outcome, ProcessResults(tier, tier_results, 1, acc))

InitMapping ==
    \E outcome \in [AgentIds -> Outcomes \cup {Malformed}] :
        LET acc == RunTiers(1, outcome,
                      [agent_results |-> <<>>, results |-> <<>>, errors |-> <<>>,
                       agents_completed |-> 0, agents_failed |-> 0])
        IN  /\ agents = InitAgents
            /\ execution_tiers = InitExecutionTiers
            /\ lists = << <<>>, <<>> >>
            /\ insights = 2
            /\ on_insight = "ws" /\ on_progress = "ws" /\ on_status = "ws"
            /\ pc = "done"
            /\ tier_idx = Len(InitExecutionTiers)
            /\ tier_tasks = TierTasks(InitExecutionTiers[Len(InitExecutionTiers)])
            /\ task_state = [a \in AgentIds |->
                                IF IsException(outcome[a]) THEN "raised" ELSE "returned"]
            /\ task_result = outcome
            /\ agent_results = acc.agent_results
            /\ results = acc.results
            /\ errors = acc.errors
            /\ agents_completed = acc.agents_completed
            /\ agents_failed = acc.agents_failed
            /\ ret = OrchestrationResult(acc)
            /\ allowed = [a \in AgentIds |-> {outcome[a]}]
            /\ emitters = {}
            /\ launched = [a \in AgentIds |-> 1]
            /\ emitted = 0
            /\ ws_pc = "mapping"
            /\ ws_open = TRUE
            /\ message_queue = <<>>
            /\ send_task_running = FALSE
            /\ pending_messages = <<>>
            /\ sender_pc = "done"
            /\ sender_msg = NoMsg
            /\ sender_timer = 0
            /\ grace_timer = 0
            /\ ws_writing = {}
            /\ ws_sent = <<>>
            /\ agent_status = [a \in InitAgents |->
                                  IF IsException(outcome[a]) THEN "failed" ELSE "completed"]
            /\ agent_progress = [a \in InitAgents |->
                                    IF IsException(outcome[a]) THEN 0 ELSE 100]
            /\ write_attempts = 0
            /\ failed_writes = 0
            /\ reset_count = 0
            /\ other_pc = "idle"
            /\ other_began = "none"
            /\ other_ret = NoResult
            /\ other_emitted = {}
            /\ old_sender_pc = "none"
            /\ old_sender_msg = NoMsg
            /\ old_sender_timer = 0
            /\ competitor_urls = <<>>
            /\ context_competitor_urls = <<>>
            /\ rest_pc = "none"
            /\ InitStores
            /\ start_urls = <<"https://a">>
            /\ handler_frames = <<>>
            /\ saved = "not_called"
            /\ summary = NotMapped
            /\ ws_url = "https://a"
            /\ complete_data = NoData
            /\ saved_url = "none"
            /\ threats \in (IF outcome["guardian"] = "data" THEN ThreatLists
                            ELSE {<<>>})

NextMapping ==
    \/ WsSendComplete
    \/ WsMappingRaised
    \/ \E m \in ws_writing : TransportWriteEnd(m)
    \/ \E outcome \in SaveOutcomes : WsPersist(outcome)

SpecMapping == InitMapping /\ [][NextMapping]_vars

\* One instance used by two callers, with reset() called in between or at
\* any other moment.  One agent of the parallel tier may fail, and the
\* events come from that agent.
InstanceAllowed ==
    [a \in AgentIds |-> IF a = "guardian" THEN {"data", "exc"} ELSE {"data"}]

InstanceEmitters == {"guardian"}

InitInstance == InitWith(InstanceAllowed, InstanceEmitters, "none")

NextInstance ==
    \/ RunStart
    \/ \E a \in AgentIds : AgentStart(a)
    \/ \E a \in AgentIds, kind \in EventKinds : AgentEmit(a, kind)
    \/ \E a \in AgentIds, outcome \in Outcomes : AgentFinish(a, outcome)
    \/ TierStep
    \/ Reset
    \/ OtherRunStart
    \/ \E a \in AgentIds, kind \in EventKinds : OtherRunEmit(a, kind)
    \/ OtherRunReturn

SpecInstance == InitInstance /\ [][NextInstance]_vars

\* The process-wide orchestrator: get_orchestrator() gives every caller
\* the same instance.  A WebSocket session runs its start command while
\* another caller, POST /analyze (which registers no callbacks) or a
\* second WebSocket session, runs an analysis on that instance before,
\* during or after it.
SharedEmitters == {"guardian"}

InitShared == InitWith(PumpAllowed, SharedEmitters, "recv")

NextShared ==
    \/ NextPump
    \/ OtherRunStart
    \/ OtherWsStart
    \/ \E a \in AgentIds, kind \in EventKinds : OtherRunEmit(a, kind)
    \/ OtherRunReturn

SpecShared == InitShared /\ [][NextShared]_vars

\* A WebSocket session whose first start command ends with run_analysis
\* raising and whose client then sends another start command.  Events
\* come from the last agent of the plan.
RestartEmitters == {"planner"}

InitRestart == InitWith(PumpAllowed, RestartEmitters, "recv")

NextRestart ==
    \/ \E url \in Urls : WsStartRunRaises(url)
    \/ WsRunRaised
    \/ \E url \in Urls : WsStartAgain(url)
    \/ \E a \in AgentIds : AgentStart(a)
    \/ \E a \in AgentIds, kind \in EventKinds : AgentEmit(a, kind)
    \/ \E a \in AgentIds, outcome \in Outcomes : AgentFinish(a, outcome)
    \/ TierStep
    \/ SenderStart
    \/ SenderGet
    \/ SenderTimeout
    \/ SenderWake
    \/ OldSenderTimeout
    \/ OldSenderGet
    \/ OldSenderWake
    \/ \E m \in ws_writing : TransportWriteEnd(m)
    \/ WsRunReturned
    \/ WsCancelSender
    \/ WsSendComplete
    \/ \E outcome \in SaveOutcomes : WsPersist(outcome)
    \/ ClientDisconnect
    \/ WsReceiveDisconnect
    \/ Tick

SpecRestart == InitRestart /\ [][NextRestart]_vars

\* The two entry points of an analysis: POST /analyze and the start command
\* of a WebSocket session.  The request names up to one competitor more than
\* POST /analyze accepts.
MaxCompetitors == 5

CompetitorLists ==
    {[i \in 1..n |-> "https://c"] : n \in 0..(MaxCompetitors + 1)}

\* POST /analyze with an acceptable request: the run starts on the
\* orchestrator, with the callbacks it happens to hold.
RestAnalyze ==
    /\ rest_pc = "none"
    /\ pc = "idle"
    /\ Len(competitor_urls) <= MaxCompetitors
    /\ rest_pc' = "running"
    /\ RunStartEffect
    /\ UNCHANGED <<storeVars, competitor_urls, oldVars, cmdVars, agentVars, sessVars, instVars,
                   agents, execution_tiers, on_insight, on_progress, on_status,
                   allowed, emitters, threats, emitted, pumpVars>>

\* POST /analyze with more than 5 competitors: HTTP 400, no run.
RestReject ==
    /\ rest_pc = "none"
    /\ Len(competitor_urls) > MaxCompetitors
    /\ rest_pc' = "rejected"
    /\ UNCHANGED <<storeVars, competitor_urls, context_competitor_urls, oldVars, cmdVars,
                   agentVars, sessVars, instVars, orchVars, runVars, envVars,
                   pumpVars>>

\* The run of POST /analyze has returned: the response is sent.
RestRespond ==
    /\ rest_pc = "running"
    /\ pc = "done"
    /\ rest_pc' = "responded"
    /\ UNCHANGED <<storeVars, competitor_urls, context_competitor_urls, oldVars, cmdVars,
                   agentVars, sessVars, instVars, orchVars, runVars, envVars,
                   pumpVars>>

EntryEmitters == {"guardian"}

InitEntry ==
    \E urls \in CompetitorLists :
        InitRequest(PumpAllowed, EntryEmitters, "recv", urls) /\ InitStores

NextEntry ==
    \/ NextPump
    \/ RestAnalyze
    \/ RestReject
    \/ RestRespond

SpecEntry == InitEntry /\ [][NextEntry]_vars

-----------------------------------------------------------------------------
\* RedisTaskQueue (redis_tasks.py): one task, and workers that report their
\* results with add_result.  Every Redis command is one step; the steps of
\* different workers interleave.  get_task_status also reads the results
\* into the task data it returns: that copy is replaced at every read and
\* is left out of the task value.

MaxCalls == 3
MaxTotal == 2

\* create_task: the task is stored as pending with no progress.
CreateTask(total) ==
    /\ task_store = NoTask
    /\ task_store' = [status |-> "pending", progress |-> 0, total |-> total]
    /\ UNCHANGED <<apiVars, linkVars, result_store, calls_started, worker_pc, worker_result,
                   worker_results, worker_updates, worker_task>>

\* add_result, line 80: current = redis.get(results_key).
AddResultGet(w) ==
    /\ worker_pc[w] = "idle"
    /\ task_store # NoTask
    /\ calls_started < MaxCalls
    /\ calls_started' = calls_started + 1
    /\ worker_result' = [worker_result EXCEPT ![w] = calls_started + 1]
    /\ worker_results' = [worker_results EXCEPT ![w] = result_store]
    /\ worker_pc' = [worker_pc EXCEPT ![w] = "append"]
    /\ UNCHANGED <<apiVars, linkVars, task_store, result_store, worker_updates, worker_task>>

\* add_result, lines 87-90: results.append(result); redis.setex(...).
AddResultSetex(w) ==
    /\ worker_pc[w] = "append"
    /\ LET appended == Append(worker_results[w], worker_result[w])
       IN /\ worker_results' = [worker_results EXCEPT ![w] = appended]
          /\ result_store' = appended
    /\ worker_pc' = [worker_pc EXCEPT ![w] = "status"]
    /\ UNCHANGED <<apiVars, linkVars, task_store, calls_started, worker_result, worker_updates,
                   worker_task>>

\* add_result, lines 93-101: the task is read and the updates are computed
\* from the local list.
AddResultStatus(w) ==
    /\ worker_pc[w] = "status"
    /\ IF task_store = NoTask
       THEN /\ worker_pc' = [worker_pc EXCEPT ![w] = "idle"]
            /\ worker_result' = [worker_result EXCEPT ![w] = 0]
            /\ UNCHANGED worker_updates
       ELSE LET progress == Len(worker_results[w])
                total == task_store.total
            IN /\ worker_updates' =
                      [worker_updates EXCEPT ![w] =
                          [progress |-> progress,
                           status |-> IF progress >= total THEN "completed"
                                      ELSE "running"]]
               /\ worker_pc' = [worker_pc EXCEPT ![w] = "update"]
               /\ UNCHANGED worker_result
    /\ UNCHANGED <<apiVars, linkVars, task_store, result_store, calls_started, worker_results,
                   worker_task>>

\* update_task, lines 62-67: the task is read again and the updates are
\* laid over it.
UpdateTaskGet(w) ==
    /\ worker_pc[w] = "update"
    /\ IF task_store = NoTask
       THEN /\ worker_pc' = [worker_pc EXCEPT ![w] = "idle"]
            /\ worker_result' = [worker_result EXCEPT ![w] = 0]
            /\ UNCHANGED worker_task
       ELSE /\ worker_task' =
                   [worker_task EXCEPT ![w] =
                       [task_store EXCEPT !.progress = worker_updates[w].progress,
                                          !.status = worker_updates[w].status]]
            /\ worker_pc' = [worker_pc EXCEPT ![w] = "store"]
            /\ UNCHANGED worker_result
    /\ UNCHANGED <<apiVars, linkVars, task_store, result_store, calls_started, worker_results,
                   worker_updates>>

\* update_task, lines 70-75: redis.setex of the task; add_result returns.
UpdateTaskSetex(w) ==
    /\ worker_pc[w] = "store"
    /\ task_store' = worker_task[w]
    /\ worker_pc' = [worker_pc EXCEPT ![w] = "idle"]
    /\ worker_result' = [worker_result EXCEPT ![w] = 0]
    /\ UNCHANGED <<apiVars, linkVars, result_store, calls_started, worker_results,
                   worker_updates,
                   worker_task>>

InitTasks == InitWith(PumpAllowed, {}, "none")

NextTasks ==
    \/ \E total \in 1..MaxTotal : CreateTask(total)
    \/ \E w \in Workers : AddResultGet(w)
    \/ \E w \in Workers : AddResultSetex(w)
    \/ \E w \in Workers : AddResultStatus(w)
    \/ \E w \in Workers : UpdateTaskGet(w)
    \/ \E w \in Workers : UpdateTaskSetex(w)

SpecTasks == InitTasks /\ [][NextTasks]_vars

-----------------------------------------------------------------------------
\* MagicLinkStorage (auth_magic_link.py): one token, stored once and then
\* presented to verify_token.  The methods contain no await, so each call
\* is one step.  Time passes in ticks.  The token expires LinkLife ticks
\* after it was stored; its Redis key is given the whole seconds of that
\* time as ttl (line 300), so it is gone when the last tick before expiry
\* has passed, and during that last tick Redis reports a ttl of 0.

LinkLife == 2
MaxVerifies == 2

Expired == now > LinkLife

\* redis.ttl(key): -2 for a missing key, else the seconds left.
RedisTtl == IF redis_link = "absent" THEN 0 - 2 ELSE LinkLife - 1 - now

RedisFailures == {"none", "setex", "sadd"}

\* store_token: Redis first, PostgreSQL when Redis is missing or raised,
\* memory when PostgreSQL is missing or raised.  An exception of sadd or
\* expire (lines 305-306) comes after the key was written.
StoreToken(redis_fail, pg_fail) ==
    /\ ~link_stored
    /\ link_stored' = TRUE
    /\ LET in_redis == redis_client /\ redis_fail # "setex"
           redis_returns == redis_client /\ redis_fail = "none"
           pg_returns == ~redis_returns /\ postgres_conn /\ ~pg_fail
       IN /\ redis_link' = IF in_redis THEN "unused" ELSE redis_link
          /\ pg_link' = IF pg_returns THEN "unused" ELSE pg_link
          /\ memory_link' = IF ~redis_returns /\ ~pg_returns THEN "unused"
                            ELSE memory_link
    /\ UNCHANGED <<apiVars, queueVars, redis_client, postgres_conn, now,
                   verify_calls, returned>>

\* verify_token.  The Redis branch returns whenever the key holds data,
\* and writes the used flag back only when the ttl is positive (line 368);
\* an exception in it, or a missing key, leads on to PostgreSQL and then to
\* memory.
VerifyToken(redis_raises, pg_raises) ==
    /\ link_stored
    /\ verify_calls < MaxVerifies
    /\ verify_calls' = verify_calls + 1
    /\ LET in_redis == redis_client /\ ~redis_raises /\ redis_link # "absent"
           in_pg == ~in_redis /\ postgres_conn /\ ~pg_raises
                      /\ pg_link = "unused" /\ ~Expired
           in_memory == ~in_redis /\ ~in_pg /\ memory_link # "absent"
       IN /\ redis_link' =
                 IF ~in_redis THEN redis_link
                 ELSE IF Expired THEN "absent"
                 ELSE IF redis_link = "unused" /\ RedisTtl > 0 THEN "used"
                 ELSE redis_link
          /\ pg_link' = IF in_pg THEN "used" ELSE pg_link
          /\ memory_link' =
                 IF ~in_memory THEN memory_link
                 ELSE IF Expired THEN "absent"
                 ELSE "used"
          /\ returned' =
                 IF \/ in_redis /\ ~Expired /\ redis_link = "unused"
                    \/ in_pg
                    \/ in_memory /\ ~Expired /\ memory_link = "unused"
                 THEN returned + 1
                 ELSE returned
    /\ UNCHANGED <<apiVars, queueVars, redis_client, postgres_conn, now,
                   link_stored>>

\* A tick of the clock; the Redis key expires by its ttl.
LinkTick ==
    /\ link_stored
    /\ now <= LinkLife
    /\ now' = now + 1
    /\ redis_link' = IF now + 1 >= LinkLife THEN "absent" ELSE redis_link
    /\ UNCHANGED <<apiVars, queueVars, redis_client, postgres_conn, link_stored,
                   pg_link, memory_link, verify_calls, returned>>

InitLinks ==
    \E redis \in BOOLEAN, postgres \in BOOLEAN :
        /\ InitRequest(PumpAllowed, {}, "none", <<>>)
        /\ InitQueue
        /\ InitLink(redis, postgres)

NextLinks ==
    \/ \E redis_fail \in RedisFailures, pg_fail \in BOOLEAN :
          StoreToken(redis_fail, pg_fail)
    \/ \E redis_raises \in BOOLEAN, pg_raises \in BOOLEAN :
          VerifyToken(redis_raises, pg_raises)
    \/ LinkTick

SpecLinks == InitLinks /\ [][NextLinks]_vars

----------------------------------------------------------------------------
\* Properties of run_analysis

Terminal == {"returned", "raised"}

TierIds(i) == {execution_tiers[i][k] : k \in 1..Len(execution_tiers[i])}

\* The tiers an agent id is listed in.
TiersOf(a) == {i \in 1..Len(execution_tiers) : a \in TierIds(i)}

\* The ids of the plan in tier order.
RECURSIVE PlanOrder(_)
PlanOrder(i) ==
    IF i > Len(execution_tiers) THEN <<>> ELSE execution_tiers[i] \o PlanOrder(i + 1)

\* The tier of agent a has been gathered and its outcomes processed.
Processed(a) ==
    \/ pc = "done"
    \/ pc = "gather" /\ \A i \in TiersOf(a) : i < tier_idx

Failed == {a \in AgentIds : task_state[a] = "raised"}

\* C1: tiers execute strictly sequentially: an agent of a later tier has
\* been started only if every agent of every earlier tier has returned or
\* raised, whatever the agents' outcomes.
C1_TiersSequential ==
    \A n \in 1..Len(execution_tiers) : \A m \in 1..Len(execution_tiers) :
        n < m =>
            \A b \in TierIds(m) :
                task_state[b] # "none" =>
                    \A a \in TierIds(n) : task_state[a] \in Terminal

\* C1 witness: the strategist (tier 4) runs after a tier-3 agent raised.
C1_Witness ==
    /\ task_state["strategist"] = "running"
    /\ task_state["guardian"] = "raised"
    /\ task_state["prospector"] = "returned"

\* C2: a failed agent does not abort the run: run_analysis never raises,
\* no agent is launched twice, and once it has returned every agent of
\* every tier was launched exactly once and ran to a terminal outcome.
C2_FailureDoesNotAbort ==
    /\ pc # "raised"
    /\ \A a \in AgentIds : launched[a] <= 1
    /\ pc = "done" =>
          /\ ret # NoResult
          /\ \A a \in AgentIds : launched[a] = 1 /\ task_state[a] \in Terminal

\* C2 witness: the run returned although every agent raised.
C2_Witness == pc = "done" /\ Failed = AgentIds /\ ret # NoResult

\* C3: after a tier is processed, a succeeded agent's result is under its
\* id in context.agent_results and in the result map, a failed agent has
\* its "<id>: <message>" string in the error list, and a failed agent never
\* has an entry in either map.
C3_OutcomeRecording ==
    \A a \in AgentIds :
        /\ (Processed(a) /\ task_state[a] = "returned") =>
              /\ a \in DOMAIN agent_results /\ agent_results[a] = task_result[a]
              /\ a \in DOMAIN results /\ results[a] = task_result[a]
        /\ (Processed(a) /\ task_state[a] = "raised") =>
              \E i \in 1..Len(errors) : errors[i] = <<a, ": ", "boom">>
        /\ task_state[a] = "raised" =>
              a \notin DOMAIN agent_results /\ a \notin DOMAIN results

\* C3 witness: tier 3 processed with guardian succeeded and prospector failed.
C3_Witness ==
    /\ tier_idx = 4 /\ pc = "gather"
    /\ task_state["guardian"] = "returned"
    /\ task_state["prospector"] = "raised"

\* C4: the returned result has success = true iff its error list is empty.
C4_SuccessIffNoErrors ==
    ret # NoResult => (ret.success <=> ret.errors = <<>>)

\* C4 witness: a returned result of a run in which some agents completed
\* and some failed.
C4_Witness ==
    /\ ret # NoResult
    /\ ret.agents_completed > 0
    /\ ret.agents_failed > 0

\* C5: for every set F of failing agents the result has agents_failed =
\* |F| = number of error strings, agents_completed = plan size - |F| =
\* number of result-map entries, one error string per failed agent in tier
\* order, the results of all succeeded agents, and success = false as soon
\* as F is not empty.
C5_Aggregation ==
    pc = "done" =>
        LET order == PlanOrder(1)
            failedInOrder == SelectSeq(order, LAMBDA a : a \in Failed)
        IN  /\ ret.agents_failed = Cardinality(Failed)
            /\ ret.agents_failed = Len(ret.errors)
            /\ ret.agents_completed = Len(order) - Cardinality(Failed)
            /\ ret.agents_completed = Cardinality(DOMAIN ret.results)
            /\ ret.errors = [i \in 1..Len(failedInOrder) |->
                                <<failedInOrder[i], ": ", "boom">>]
            /\ \A a \in AgentIds \ Failed :
                  a \in DOMAIN ret.results /\ ret.results[a] = task_result[a]
            /\ (Failed # {}) => ret.success = FALSE

\* C5 witness: only guardian (first of the parallel tier) failed: five
\* completed, one failed, one error string, partial data.
C5_Witness ==
    /\ pc = "done"
    /\ ret.agents_completed = 5 /\ ret.agents_failed = 1
    /\ ret.errors = << <<"guardian", ": ", "boom">> >>
    /\ ret.success = FALSE
    /\ DOMAIN ret.results = AgentIds \ {"guardian"}

\* C10: execution_tiers is a valid tier plan: every registered agent is in
\* exactly one tier (once), every tier id is registered, and each agent's
\* documented dependencies lie in strictly earlier tiers.
C10_ValidTierPlan ==
    /\ \A a \in agents :
          Cardinality({<<i, k>> \in (1..Len(execution_tiers)) \X (1..Cardinality(AgentIds)) :
                          k <= Len(execution_tiers[i]) /\ execution_tiers[i][k] = a}) = 1
    /\ \A i \in 1..Len(execution_tiers) : TierIds(i) \subseteq agents
    /\ \A a \in agents : \A i \in TiersOf(a) :
          Dependencies[a] \subseteq UNION {TierIds(j) : j \in 1..(i - 1)}

\* C10 witness: the planner runs with its dependencies' results in context.
C10_Witness ==
    /\ task_state["planner"] = "running"
    /\ Dependencies["planner"] \subseteq DOMAIN agent_results

\* C27: every outcome is attributed to the agent that produced it: the
\* tasks gathered for a tier are, position by position, the agents the
\* tier lists, so every key of the result map and of context.agent_results
\* is an agent that returned and holds what that agent returned, and every
\* error string is prefixed with the id of an agent that raised, one
\* string per such agent.
C27_OutcomesAttributed ==
    /\ pc = "gather" => tier_tasks = execution_tiers[tier_idx]
    /\ \A a \in DOMAIN results :
          task_state[a] = "returned" /\ results[a] = task_result[a]
    /\ \A a \in DOMAIN agent_results :
          task_state[a] = "returned" /\ agent_results[a] = task_result[a]
    /\ \A i \in 1..Len(errors) :
          \E a \in AgentIds :
              /\ task_state[a] = "raised"
              /\ errors[i] = ErrorString(a, Str(task_result[a]))
    /\ \A i \in 1..Len(errors) : \A j \in 1..Len(errors) :
          i # j => errors[i][1] # errors[j][1]

\* C27 witness: of the two agents gathered together the first raised and
\* the second returned an empty result; the run lists the error under the
\* first and the result under the second.
C27_Witness ==
    /\ pc = "done"
    /\ task_result["guardian"] = "exc"
    /\ task_result["prospector"] = "empty"
    /\ ret.results["prospector"] = "empty"
    /\ "guardian" \notin DOMAIN ret.results
    /\ \E i \in 1..Len(ret.errors) : ret.errors[i][1] = "guardian"

----------------------------------------------------------------------------
\* Properties of the event pump

Range(seq) == {seq[i] : i \in 1..Len(seq)}

\* The agent-event frames the transport has written, in order.
SentEvents == SelectSeq(ws_sent, LAMBDA m : m.type \in EventTypes)

\* The place of message m in the order the callbacks queued the messages.
EnqueuePos(m) == CHOOSE k \in 1..Len(pending_messages) : pending_messages[k] = m

\* A step of run_analysis or of an agent task.
OrchestratorStep ==
    \/ \E a \in AgentIds : AgentStart(a)
    \/ \E a \in AgentIds, outcome \in Outcomes : AgentFinish(a, outcome)
    \/ TierStep

\* C6: the transport receives event frames in the relative order in which
\* the callbacks queued them, whichever agents emitted them.
C6_OrderPreserved ==
    /\ Range(SentEvents) \subseteq Range(pending_messages)
    /\ \A i \in 1..Len(SentEvents) : \A j \in 1..Len(SentEvents) :
          i < j => EnqueuePos(SentEvents[i]) < EnqueuePos(SentEvents[j])

\* C6 witness: the two agents of the parallel tier each emitted an event
\* while both ran, and both frames have been written.
C6_Witness ==
    /\ tier_idx = 3
    /\ Len(SentEvents) >= 2
    /\ SentEvents[1].agent_id # SentEvents[2].agent_id

\* C7: once the consumer task has been cancelled (connection still up),
\* every event queued during the run has been written to the transport.
C7_AllWrittenAtCancel ==
    (/\ ws_pc \in {"mapping", "send_complete", "persist", "recv"}
     /\ sender_pc \in {"cancelled", "done"}
     /\ ws_open)
        => Range(pending_messages) \subseteq Range(ws_sent)

C9_CallbacksNeverBlock ==
    /\ \A a \in AgentIds : \A kind \in EventKinds :
          (pc = "gather" /\ task_state[a] = "running" /\ a \in emitters
              /\ emitted < MaxEvents) => ENABLED AgentEmit(a, kind)
    /\ ws_pc \in {"await_run", "grace"} =>
          /\ Len(pending_messages) = emitted
          /\ \E n \in 0..Len(pending_messages) :
                message_queue = SubSeq(pending_messages, n + 1, Len(pending_messages))
    /\ (ws_pc = "await_run" /\ pc = "gather") => ENABLED OrchestratorStep

\* C9 witness: all tiers have run to completion while the transport is
\* still writing the first event and the later events wait in the queue.
C9_Witness ==
    /\ pc = "done"
    /\ ws_pc = "await_run"
    /\ sender_pc = "send"
    /\ ws_sent = <<>>
    /\ Len(pending_messages) >= 2
    /\ Len(message_queue) = Len(pending_messages) - 1

\* C11: context.agent_results is written only when a whole tier has
\* resolved: while an agent of tier N is scheduled or running, the keys of
\* context.agent_results are ids of tiers strictly before N, so no agent
\* sees a sibling's result; and a key, once written, is neither written
\* again nor removed before the run returns.
C11_ResultsOfEarlierTiersOnly ==
    /\ [](\A a \in AgentIds :
            task_state[a] \in {"scheduled", "running"} =>
                \A k \in DOMAIN agent_results :
                    \A n \in TiersOf(a) : \A m \in TiersOf(k) : m < n)
    /\ [][pc = "gather" =>
              /\ \A k \in DOMAIN agent_results :
                    /\ k \in DOMAIN agent_results'
                    /\ agent_results'[k] = agent_results[k]
              /\ (DOMAIN agent_results' \ DOMAIN agent_results)
                    \subseteq TierIds(tier_idx)
              /\ DOMAIN agent_results \cap TierIds(tier_idx) = {}]_vars

\* C11 witness: the guardian has returned while its sibling, the
\* prospector, still runs, and the context holds the results of the two
\* earlier tiers only.
C11_Witness ==
    /\ task_state["guardian"] = "returned"
    /\ task_state["prospector"] = "running"
    /\ DOMAIN agent_results = {"scout", "analyst"}

\* The insight events among the frames the listener was given, in order.
InsightsOf(msgs) ==
    LET sel == SelectSeq(msgs, LAMBDA m : m.type = "agent_insight")
    IN  [i \in 1..Len(sel) |->
            [kind |-> "insight", agent_id |-> sel[i].agent_id, id |-> sel[i].id]]

C14_NoWriteAfterFailure ==
    [][failed_writes > 0 => write_attempts' = write_attempts]_vars

\* C14, amended: a failed write is logged inside send_json and is not
\* reported to the consumer, which does not stop: every message it
\* dequeues is handed to send_json, also after a write has failed, and the
\* consumer ends by itself only when the flag is cleared and the queue is
\* empty.
C14_WritesGoOnAfterFailure ==
    /\ write_attempts = Len(pending_messages) - Len(message_queue)
    /\ failed_writes <= write_attempts
    /\ failed_writes > 0 => sender_pc \in {"get", "send", "sleep", "done", "cancelled"}
    /\ sender_pc = "done" => (~send_task_running /\ message_queue = <<>>)

\* C14 witness: the client has gone, a write failed, and the consumer
\* attempted and failed another one while the run is still in progress.
C14_Witness ==
    /\ ~ws_open
    /\ pc = "gather"
    /\ failed_writes = 2
    /\ write_attempts = 2

\* C15: a transport failure never reaches the orchestrator: whatever
\* writes fail and whenever the client disconnects, run_analysis does not
\* raise, a step of the run or of an agent stays possible until the last
\* tier is processed, every agent has run to a terminal outcome when it
\* returns, and while events are still queued the consumer is alive and
\* dequeues the next one when it is at the queue.
C15_TransportFailureIsolated ==
    /\ pc # "raised"
    /\ (~ws_open /\ ws_pc = "await_run" /\ pc = "gather") => ENABLED OrchestratorStep
    /\ (~ws_open /\ pc = "done") =>
          /\ ret # NoResult
          /\ \A a \in AgentIds : launched[a] = 1 /\ task_state[a] \in Terminal
    /\ (failed_writes > 0 /\ ws_pc \in {"await_run", "grace"} /\ message_queue # <<>>) =>
          /\ sender_pc \in {"get", "send", "sleep"}
          /\ sender_pc = "get" => ENABLED SenderGet

\* C15 witness: the client went away before the first write ended; all
\* tiers have run, the run returned with every agent completed, and the
\* consumer has dequeued every event although each write failed.
C15_Witness ==
    /\ ~ws_open
    /\ ws_sent = <<>>
    /\ pc = "done"
    /\ ret.agents_completed = 6
    /\ Len(pending_messages) = 2
    /\ failed_writes = 2
    /\ message_queue = <<>>

\* message_sender is about to evaluate its while condition.
SenderAtLoopCheck ==
    \/ sender_pc = "created"
    \/ sender_pc \in {"get", "sleep"} /\ sender_timer = 0

----------------------------------------------------------------------------
\* Properties of the handler of start commands

EmptyUrls == {"none", ""}

\* How many times frame f is in the sequence q.
Count(q, f) == Cardinality({i \in 1..Len(q) : q[i] = f})

\* The start commands without a url received so far.
BadStarts == Cardinality({i \in 1..Len(start_urls) : start_urls[i] \in EmptyUrls})

\* Some start command carried a url.
ValidStarted == \E i \in 1..Len(start_urls) : start_urls[i] \notin EmptyUrls

\* C16: a start command whose url is missing or empty is a setup failure:
\* the handler sends exactly one "URL is required" error frame for it and
\* nothing else happens: no run is started, no queue or consumer task is
\* created, no agent event and no analysis_complete frame follows; and
\* the session goes on accepting commands, a start with a url included.
C16_StartWithoutUrl ==
    /\ [](Count(handler_frames, UrlRequiredFrame) = BadStarts)
    /\ [](~ValidStarted =>
            /\ pc = "idle"
            /\ sender_pc = "none"
            /\ message_queue = <<>> /\ pending_messages = <<>>
            /\ emitted = 0
            /\ \A f \in Range(handler_frames) \cup Range(ws_sent) \cup ws_writing :
                  f = UrlRequiredFrame)
    /\ [][(Len(start_urls') > Len(start_urls)
              /\ start_urls'[Len(start_urls')] \in EmptyUrls) =>
              /\ handler_frames' = Append(handler_frames, UrlRequiredFrame)
              /\ UNCHANGED <<orchVars, runVars, envVars, message_queue,
                             send_task_running, pending_messages, sender_pc,
                             ws_sent, ws_open>>]_vars
    /\ []((ws_pc = "recv" /\ ws_open /\ pc = "idle") => ENABLED WsStart("https://a"))
    /\ [](ws_pc = "closed" => ~ws_open)

\* C16 witness: a start command with an empty url was answered with the
\* error frame, and the start command with a url that came next runs.
C16_Witness ==
    /\ start_urls = <<"", "https://a">>
    /\ ws_sent = <<UrlRequiredFrame>>
    /\ pc = "gather"
    /\ sender_pc = "get"

\* The terminal frames the handler has given to send_json.
TerminalFrames ==
    SelectSeq(handler_frames, LAMBDA f : f \in {CompleteFrame, AnalysisErrorFrame})

\* The result holds something that is not a dict where the mapping reads
\* fields.
ResultMalformed ==
    \E a \in {"analyst", "guardian", "prospector", "strategist"} :
        a \in DOMAIN ret.results /\ ret.results[a] = Malformed

\* C17: a start command with a url produces exactly one terminal frame:
\* never two, and one by the time the handler is back at receiving
\* commands; it is analysis_complete when run_analysis returned and the
\* mapping went through (also when agents failed), and the error frame
\* when run_analysis or the mapping raised.
C17_OneTerminalFrame ==
    /\ Len(TerminalFrames) <= 1
    /\ (ValidStarted /\ ws_pc \in {"recv", "closed"}) => Len(TerminalFrames) = 1
    /\ CompleteFrame \in Range(handler_frames) => (pc = "done" /\ ~ResultMalformed)
    /\ AnalysisErrorFrame \in Range(handler_frames) =>
          (pc = "raised" \/ (pc = "done" /\ ResultMalformed))

\* C17 witness: a run in which an agent failed got its analysis_complete
\* frame, and the handler is back at receiving commands.
C17_Witness ==
    /\ ws_pc = "recv"
    /\ ws_open
    /\ pc = "done"
    /\ agents_failed = 1
    /\ TerminalFrames = <<CompleteFrame>>
    /\ CompleteFrame \in Range(ws_sent)

\* C18: persistence is best-effort: save_analysis is called only after
\* the write of the analysis_complete frame has ended, and whatever it
\* does (an id, no id, an exception) the handler sends no frame, leaves
\* what was sent as it is and returns to receiving commands; no error
\* frame of the analysis exists after a failed save, and the session ends
\* only when the client has gone.
C18_PersistenceBestEffort ==
    /\ [](saved # "not_called" =>
            /\ CompleteFrame \in Range(handler_frames)
            /\ CompleteFrame \notin ws_writing
            /\ AnalysisErrorFrame \notin Range(handler_frames))
    /\ [][saved' # saved =>
              /\ ws_pc' = "recv"
              /\ UNCHANGED <<handler_frames, ws_writing, ws_sent, ws_open>>]_vars
    /\ []((saved # "not_called" /\ ws_pc = "closed") => ~ws_open)

\* C18 witness: save_analysis raised after the analysis_complete frame
\* had been written; the client is connected and the handler receives.
C18_Witness ==
    /\ saved = "raised"
    /\ ws_open
    /\ ws_pc = "recv"
    /\ ws_sent # <<>>
    /\ ws_sent[Len(ws_sent)] = CompleteFrame

\* The mapped agents that have no entry in the result map.
Absent == MappedAgents \ DOMAIN ret.results

\* C19: the mapping tolerates absent results: whatever subset of analyst,
\* guardian, prospector, strategist and planner is missing from the result
\* map (the results present being dicts), the mapping does not raise, the
\* analysis_complete frame is the one terminal frame, and everything read
\* from an absent agent's result is its default.
C19_MappingToleratesAbsent ==
    ~ResultMalformed =>
        /\ ws_pc = "mapping" => ENABLED WsSendComplete
        /\ ws_pc # "mapping" =>
              /\ TerminalFrames = <<CompleteFrame>>
              /\ summary # NotMapped
              /\ \A a \in Absent : summary[a] = "default"

\* C19 witness: all five mapped agents failed, and the analysis_complete
\* frame was written after a mapping that gave defaults only.
C19_Witness ==
    /\ Absent = MappedAgents
    /\ ws_sent = <<CompleteFrame>>
    /\ summary = [a \in MappedAgents |-> "default"]

\* C26: analysis_complete is the last frame of a run: once the
\* analysis_complete frame has been written to the transport, no write of
\* an agent_insight, agent_progress or agent_status frame begins.
C26_CompleteIsLastFrame ==
    [][(CompleteFrame \in Range(ws_sent)) =>
          (\A m \in ws_writing' \ ws_writing : m.type \notin EventTypes)]_vars

\* C25: after a start command has been handled the consumer task created
\* for it has terminated, on every path (run_analysis returned, or it
\* raised): once the handler is back at receiving commands, or has ended,
\* no consumer task is alive and the flag is cleared.
C25_ConsumerEndedAfterStart ==
    (ValidStarted /\ ws_pc \in {"recv", "closed"}) =>
        /\ sender_pc \in {"done", "cancelled"}
        /\ ~send_task_running

----------------------------------------------------------------------------
\* Properties of the instance across calls

\* The numbers of the events that were put on the session's queue.
QueuedIds == {pending_messages[i].id : i \in 1..Len(pending_messages)}

\* C24: on the process-wide orchestrator events are delivered only to the
\* session that started the run: no event of another caller's run is put
\* on the session's queue, and every event of the session's own run is.
C24_EventsToOwnSessionOnly ==
    /\ QueuedIds \cap other_emitted = {}
    /\ ValidStarted => ((1..emitted) \ other_emitted) \subseteq QueuedIds

\* C13: reset() returns every registered agent to status idle with
\* progress 0 and leaves the orchestrator's event list empty; a reset()
\* applied to the state a reset() left gives that same state; and the
\* result of a run that began after the previous run had returned lists no
\* event of the previous run.
C13_ResetClearsAndIsIdempotent ==
    /\ [][reset_count' # reset_count =>
              /\ \A a \in agents : agent_status'[a] = "idle" /\ agent_progress'[a] = 0
              /\ lists'[insights'] = <<>>
              /\ OrchState' = ResetOf(OrchState)
              /\ ResetOf(ResetOf(OrchState)) = ResetOf(OrchState)
              /\ ResetOf(OrchState') = OrchState']_vars
    /\ []((other_pc = "done" /\ other_began = "done") =>
              \A i \in 1..Len(lists[other_ret.insights]) :
                  "run" \in DOMAIN lists[other_ret.insights][i])

\* C13 witness: the first run returned with a failed agent and an insight,
\* reset() was called twice, and the next run returned with an insight of
\* its own; every agent is idle with progress 0.
C13_Witness ==
    /\ pc = "done"
    /\ agents_failed = 1
    /\ Len(lists[ret.insights]) = 1
    /\ reset_count = 2
    /\ other_pc = "done"
    /\ other_began = "done"
    /\ Len(lists[other_ret.insights]) = 1
    /\ \A a \in agents : agent_status[a] = "idle" /\ agent_progress[a] = 0

\* C20: an OrchestrationResult is immutable once run_analysis has returned
\* it: no later step (reset(), another run_analysis call on the same
\* instance, a later event callback) changes its results, its errors or
\* the content of its event list.
C20_ReturnedResultImmutable ==
    [][(ret # NoResult /\ ret' # NoResult) =>
          /\ ret' = ret
          /\ lists'[ret.insights] = lists[ret.insights]]_vars

----------------------------------------------------------------------------
\* Properties of the analysis_complete frame and of persistence

\* The agents whose run() returned.
Succeeded == {a \in AgentIds : task_state[a] = "returned"}

\* C21: the agents_completed and agents_failed fields of the
\* analysis_complete frame are simple counts: the number of agents whose
\* run succeeded and the number whose run raised, their sum being the
\* number of agents in the tier plan, whatever the successful agents
\* returned (an empty result included).
C21_FrameCountsAreSimpleCounts ==
    complete_data # NoData =>
        /\ complete_data.agents_completed = Cardinality(Succeeded)
        /\ complete_data.agents_failed = Cardinality(Failed)
        /\ complete_data.agents_completed + complete_data.agents_failed
              = Len(PlanOrder(1))

\* C23: the persistence collaborator is called with the subject url of the
\* start command: the url argument of save_analysis is the url the client
\* sent, for every guardian result, also one that lists competitor
\* threats.
C23_SavedUrlIsSubjectUrl ==
    saved # "not_called" => saved_url = start_urls[Len(start_urls)]

\* ---------------------------------------------------------------------
\* Properties of the entry points

\* C28: no run is started with more than 5 competitor URLs, whichever entry
\* point received the request: the context of every run holds at most 5.
C28_AtMostFiveCompetitors ==
    pc # "idle" => Len(context_competitor_urls) <= MaxCompetitors

\* ---------------------------------------------------------------------
\* Properties of RedisTaskQueue

\* No worker is inside add_result.
QueueQuiet == \A w \in Workers : worker_pc[w] = "idle"

\* C30: after any interleaving of add_result calls by concurrent workers
\* no result is lost (every added result is in the stored list, once), the
\* stored progress is the number of add_result calls, the status is
\* "completed" exactly when progress >= total, and a completed task never
\* returns to "running".
C30_NoResultLost ==
    /\ [](QueueQuiet /\ calls_started > 0 =>
            /\ Len(result_store) = calls_started
            /\ Range(result_store) = 1..calls_started
            /\ task_store.progress = calls_started
            /\ (task_store.status = "completed"
                   <=> task_store.progress >= task_store.total))
    /\ [][task_store.status = "completed"
             => task_store'.status = "completed"]_vars

\* ---------------------------------------------------------------------
\* Properties of MagicLinkStorage

\* C29: a magic-link token is consumed by its first successful
\* verification: verify_token returns the link data at most once for a
\* stored token, on each backend.
C29_TokenVerifiedAtMostOnce == returned <= 1

====
